---- MODULE Spec2Model ----
(***************************************************************************)
(* Real-time transcription session engine of the Smart Meeting Assistant   *)
(* and its WebSocket handler (src/services/realtime_service.py), and the   *)
(* HTTP routes that drive the engine (src/app.py).                         *)
(*                                                                         *)
(* Audio is modelled in whole seconds of 16-bit mono audio: one element of *)
(* a byte sequence stands for SecondBytes = sample_rate * 2 bytes and      *)
(* carries the id of the chunk it came from, so that a byte can be traced  *)
(* from the chunk that delivered it to the snapshot that was transcribed.  *)
(* Text is a TLA+ string; the Transcription and Insight capabilities are   *)
(* external and their outcome is a nondeterministic choice.                *)
(*                                                                         *)
(* Time is a clock in seconds that advances in steps of TickStep.  The     *)
(* 'timestamp' entries of chunks and segments are write-only in the source *)
(* and are left out of the session dict; created_at and ended_at are kept. *)
(*                                                                         *)
(* Spec runs the service's calls one after another for one session id.     *)
(* SpecConc runs process_audio_chunk on two request threads, one statement *)
(* at a time.  SpecSummary runs get_session_summary one statement at a     *)
(* time beside the cleanup threads.  SpecHttp ends sessions through the    *)
(* HTTP end route, which saves them to data/meetings.json.  SpecTwo runs   *)
(* two session ids side by side.  SpecAnalysis feeds one session flushes   *)
(* with a variety of texts.  SpecWs drives the service through the         *)
(* WebSocket handler, message by message, on one connection; SpecConn does *)
(* so on two connections.  SpecStart starts sessions whose id the server   *)
(* generates.  SpecList lists the active sessions.  SpecLive lets the      *)
(* cleanup threads run to their end.  SpecSearch runs search_meetings      *)
(* (src/services/search_service.py) over saved meetings.                   *)
(***************************************************************************)
EXTENDS Integers, Sequences, FiniteSets, TLC

VARIABLES
    active_sessions,  \* self.active_sessions: session id -> object (0: key absent)
    sessions,         \* the session dicts ever built, by object identity
    cleanups,         \* the cleanup threads started by end_session, still sleeping
    now,              \* the wall clock, in seconds
    next_chunk,       \* identity of the next audio chunk delivered
    threads,          \* request threads inside process_audio_chunk (SpecConc)
    submitted,        \* per object: the snapshots handed to the Transcription Capability
    accepted,         \* per object: the chunks written into the buffer
    meetings,         \* data/meetings.json: the meeting records saved so far
    clients,          \* handler.clients: websocket -> session id ("": key absent)
    connected,        \* the websockets whose handle_client loop is running
    last              \* the call that returned last, and what it returned

vars == <<active_sessions, sessions, cleanups, now, next_chunk, threads,
          submitted, accepted, meetings, clients, connected, last>>

----------------------------------------------------------------------------
(* Bounds of the model *)

MaxObjs == 2
MaxChunks == 2
MaxChunkSeconds == 3
MaxCleanups == 2
TickStep == 150
MaxTime == 300
MaxMeetings == 3
MaxTopK == 2

(* Program constants *)

sample_rate == 16000
SampleWidth == 2
FlushSeconds == 3
RetentionDelay == 300

SecondBytes == sample_rate * SampleWidth
FlushThreshold == sample_rate * SampleWidth * FlushSeconds

SessionIds == {"s1", "s2"}
MainIds == {"s1"}

\* the readings the clock can show
ClockTimes == {k * TickStep : k \in 0..(MaxTime \div TickStep)}

\* f"session_{datetime.now().timestamp()}": the id given to a start request without one
GeneratedId(t) == "session_" \o ToString(t)
GeneratedIds == {GeneratedId(t) : t \in ClockTimes}

\* the keys self.active_sessions can hold
RegistryIds == SessionIds \cup GeneratedIds
Threads == {"t1", "t2"}
Connections == {"w1", "w2"}
MainConnections == {"w1"}

\* self.clients.get(websocket) when the websocket has no entry
NoSession == ""

\* What the Transcription Capability may say for a buffer.
Texts == {"We assign ACTION"}
TranscribeOutcomes ==
    [ok : {TRUE}, text : Texts \cup {""}] \cup {[ok |-> FALSE, text |-> ""]}

\* Whether the Insight Capability's API call succeeds.
InsightOutcomes == {"insights", "api_failure"}

----------------------------------------------------------------------------
(* io.BytesIO *)

BytesIO == [data |-> <<>>, pos |-> 0]

BytesIO_write(b, d) ==
    [data |-> SubSeq(b.data, 1, b.pos) \o d
                \o SubSeq(b.data, b.pos + Len(d) + 1, Len(b.data)),
     pos  |-> b.pos + Len(d)]

BytesIO_tell(b) == b.pos * SecondBytes

BytesIO_seek0(b) == [b EXCEPT !.pos = 0]

BytesIO_read(b) == SubSeq(b.data, b.pos + 1, Len(b.data))

BytesIO_afterRead(b) == [b EXCEPT !.pos = IF b.pos > Len(b.data) THEN b.pos ELSE Len(b.data)]

\* The bytes of a delivered chunk: `secs` seconds of audio, all tagged `id`.
ChunkBytes(id, secs) == [i \in 1..secs |-> id]

\* A chunk written into a session's buffer; `late` when it was written while a
\* flush of the same session was waiting for the Transcription Capability.
Accepted(id, secs, late) == [id |-> id, secs |-> secs, late |-> late]

----------------------------------------------------------------------------
(* Strings *)

CharAt(s, i) == SubSeq(s, i, i)

LowerChar(c) ==
    CASE c = "A" -> "a" [] c = "B" -> "b" [] c = "C" -> "c" [] c = "D" -> "d"
      [] c = "E" -> "e" [] c = "F" -> "f" [] c = "G" -> "g" [] c = "H" -> "h"
      [] c = "I" -> "i" [] c = "J" -> "j" [] c = "K" -> "k" [] c = "L" -> "l"
      [] c = "M" -> "m" [] c = "N" -> "n" [] c = "O" -> "o" [] c = "P" -> "p"
      [] c = "Q" -> "q" [] c = "R" -> "r" [] c = "S" -> "s" [] c = "T" -> "t"
      [] c = "U" -> "u" [] c = "V" -> "v" [] c = "W" -> "w" [] c = "X" -> "x"
      [] c = "Y" -> "y" [] c = "Z" -> "z" [] OTHER -> c

RECURSIVE LowerFrom(_, _)
LowerFrom(s, i) ==
    IF i > Len(s) THEN "" ELSE LowerChar(CharAt(s, i)) \o LowerFrom(s, i + 1)

\* str.lower()
Lower(s) == LowerFrom(s, 1)

\* `word in text`
Contains(text, word) ==
    \E i \in 1..(Len(text) - Len(word) + 1) : SubSeq(text, i, i + Len(word) - 1) = word

IsSpace(c) == c = " "

\* len(text.split()): the number of maximal runs of non-whitespace characters
WordCount(s) ==
    Cardinality({i \in 1..Len(s) :
        /\ ~IsSpace(CharAt(s, i))
        /\ (i = 1 \/ IsSpace(CharAt(s, i - 1)))})

\* bool(text.strip())
StripNonEmpty(s) == \E i \in 1..Len(s) : ~IsSpace(CharAt(s, i))

RECURSIVE JoinFrom(_, _)
JoinFrom(texts, i) ==
    IF i > Len(texts) THEN ""
    ELSE IF i = Len(texts) THEN texts[i]
    ELSE texts[i] \o " " \o JoinFrom(texts, i + 1)

\* " ".join(texts)
Join(texts) == JoinFrom(texts, 1)

RECURSIVE SumSizes(_, _)
SumSizes(chunks, i) ==
    IF i > Len(chunks) THEN 0 ELSE chunks[i].size + SumSizes(chunks, i + 1)

----------------------------------------------------------------------------
(* _update_live_analysis *)

TopicKeywords == <<
    [topic |-> "planning",  words |-> {"plan", "schedule", "timeline", "roadmap"}],
    [topic |-> "technical", words |-> {"code", "bug", "feature", "development", "api"}],
    [topic |-> "business",  words |-> {"revenue", "customer", "market", "sales"}],
    [topic |-> "meeting",   words |-> {"agenda", "action", "decision", "review"}] >>

ActionIndicators == {"todo", "action", "assign", "responsible", "deadline", "due"}
PositiveWords == {"good", "great", "excellent", "success", "positive"}
NegativeWords == {"issue", "problem", "concern", "difficult", "challenge"}

AnyIn(words, text) == \E w \in words : Contains(text, w)

\* a variant of the topic loop without the break: the last matching rule wins
RECURSIVE TopicFrom_NoBreak(_, _, _)
TopicFrom_NoBreak(text_lower, i, previous) ==
    IF i > Len(TopicKeywords) THEN previous
    ELSE TopicFrom_NoBreak(text_lower, i + 1,
             IF AnyIn(TopicKeywords[i].words, text_lower)
             THEN TopicKeywords[i].topic ELSE previous)

\* the topic of the first rule, in dict order, with a keyword in the text
RECURSIVE TopicFrom(_, _, _)
TopicFrom(text_lower, i, previous) ==
    IF i > Len(TopicKeywords) THEN previous
    ELSE IF AnyIn(TopicKeywords[i].words, text_lower) THEN TopicKeywords[i].topic
    ELSE TopicFrom(text_lower, i + 1, previous)

\* a variant of the comparison in which a tie counts as positive
Sentiment_TieIsPositive(text_lower) ==
    LET positive_count == Cardinality({w \in PositiveWords : Contains(text_lower, w)})
        negative_count == Cardinality({w \in NegativeWords : Contains(text_lower, w)})
    IN  IF positive_count >= negative_count THEN "positive" ELSE "negative"

Sentiment(text_lower) ==
    LET positive_count == Cardinality({w \in PositiveWords : Contains(text_lower, w)})
        negative_count == Cardinality({w \in NegativeWords : Contains(text_lower, w)})
    IN  IF positive_count > negative_count THEN "positive"
        ELSE IF negative_count > positive_count THEN "negative"
        ELSE "neutral"

\* a variant of the update that sets word_count to the new text's count
UpdateLiveAnalysis_ReplacesCount(analysis, new_text) ==
    LET text_lower == Lower(new_text)
    IN  [analysis EXCEPT
            !.word_count = WordCount(new_text),
            !.current_topic = TopicFrom(text_lower, 1, @),
            !.action_items_detected =
                IF AnyIn(ActionIndicators, text_lower) THEN @ + 1 ELSE @,
            !.sentiment = Sentiment(text_lower)]

\* a variant of the update that counts every matching action indicator
UpdateLiveAnalysis_CountsEachIndicator(analysis, new_text) ==
    LET text_lower == Lower(new_text)
    IN  [analysis EXCEPT
            !.word_count = @ + WordCount(new_text),
            !.current_topic = TopicFrom(text_lower, 1, @),
            !.action_items_detected =
                @ + Cardinality({w \in ActionIndicators : Contains(text_lower, w)}),
            !.sentiment = Sentiment(text_lower)]

UpdateLiveAnalysis(analysis, new_text) ==
    LET text_lower == Lower(new_text)
    IN  [analysis EXCEPT
            !.word_count = @ + WordCount(new_text),
            !.current_topic = TopicFrom(text_lower, 1, @),
            !.action_items_detected =
                IF AnyIn(ActionIndicators, text_lower) THEN @ + 1 ELSE @,
            !.sentiment = Sentiment(text_lower)]

----------------------------------------------------------------------------
(* The session dict and the steps of process_audio_chunk / _process_buffer *)

NewSession(sid, t) ==
    [id |-> sid,
     created_at |-> t,
     audio_chunks |-> <<>>,
     transcription_segments |-> <<>>,
     partial_transcriptions |-> <<>>,
     live_analysis |-> [word_count |-> 0,
                        speakers_detected |-> 0,
                        current_topic |-> "Unknown",
                        sentiment |-> "neutral",
                        action_items_detected |-> 0],
     audio_buffer |-> BytesIO,
     is_active |-> TRUE]

\* a variant of the write that starts a new buffer for every chunk
WriteChunk_NewBuffer(s, data) == [s EXCEPT !.audio_buffer = BytesIO_write(BytesIO, data)]

\* session['audio_buffer'].write(audio_data)
WriteChunk(s, data) == [s EXCEPT !.audio_buffer = BytesIO_write(@, data)]

\* session['audio_chunks'].append({...})
RecordChunk(s, data, t) ==
    [s EXCEPT !.audio_chunks =
        Append(@, [size |-> Len(data) * SecondBytes])]

\* session['audio_buffer'].tell()
BufferSize(s) == BytesIO_tell(s.audio_buffer)

\* buffer_size >= self.sample_rate * 2 * 3
ReadyToFlush(buffer_size) == buffer_size >= FlushThreshold

\* session['audio_buffer'].seek(0)
SeekBuffer(s) == [s EXCEPT !.audio_buffer = BytesIO_seek0(@)]

\* audio_data = session['audio_buffer'].read(): the value read, and the buffer after
ReadBuffer(s) == BytesIO_read(s.audio_buffer)
AfterReadBuffer(s) == [s EXCEPT !.audio_buffer = BytesIO_afterRead(@)]

\* _transcribe_chunk: any exception of the capability becomes "".  (AudioService
\* as it stands defines transcribe and no transcribe_audio, so the call at line
\* 165 raises AttributeError and every flush takes the failure outcome; the other
\* outcomes are those of a capability that has the method.)
TranscribeChunk(outcome) ==
    IF outcome.ok /\ outcome.text # "" THEN outcome.text ELSE ""

\* a variant of the segment whose duration forgets the two bytes per sample
NewSegment_PerSample(transcription, audio_data, t) ==
    [text |-> transcription,
     duration |-> (Len(audio_data) * SecondBytes) \div sample_rate]

\* duration is len(audio_data) / (sample_rate * 2), kept in seconds
NewSegment(transcription, audio_data, t) ==
    [text |-> transcription,
     duration |-> (Len(audio_data) * SecondBytes) \div (sample_rate * SampleWidth)]

\* a variant of the append that puts the new segment first
AppendSegment_Prepend(s, segment) ==
    [s EXCEPT !.transcription_segments = <<segment>> \o @]

AppendSegment(s, segment) ==
    [s EXCEPT !.transcription_segments = Append(@, segment)]

ApplyLiveAnalysis(s, transcription) ==
    [s EXCEPT !.live_analysis = UpdateLiveAnalysis(@, transcription)]

\* session['audio_buffer'] = io.BytesIO(), on the transcribed path only
ClearBuffer(s) == [s EXCEPT !.audio_buffer = BytesIO]

ErrorResult(msg) == [status |-> "error", error |-> msg]

NotFound(sid) == ErrorResult("Session " \o sid \o " not found")

BufferingResult(sid, s, buffer_size) ==
    [status |-> "buffering", session_id |-> sid, buffer_size |-> buffer_size,
     chunks_received |-> Len(s.audio_chunks)]

TranscribedResult(sid, s, segment) ==
    [status |-> "transcribed", session_id |-> sid, segment |-> segment,
     live_analysis |-> s.live_analysis,
     total_segments |-> Len(s.transcription_segments)]

NoTranscriptionResult(sid) ==
    [status |-> "no_transcription", session_id |-> sid, buffer_cleared |-> TRUE]

\* _process_buffer run to its end on session s: the session after, and the result
ProcessBuffer(sid, s, outcome, t) ==
    LET s1 == SeekBuffer(s)
        audio_data == ReadBuffer(s1)
        s2 == AfterReadBuffer(s1)
        transcription == TranscribeChunk(outcome)
        segment == NewSegment(transcription, audio_data, t)
        s3 == ClearBuffer(ApplyLiveAnalysis(AppendSegment(s2, segment), transcription))
    IN  IF transcription # ""
        THEN [session |-> s3, audio_data |-> audio_data,
              result |-> TranscribedResult(sid, s3, segment)]
        ELSE [session |-> s2, audio_data |-> audio_data,
              result |-> NoTranscriptionResult(sid)]

----------------------------------------------------------------------------
(* get_session_summary *)

NoAnalysis == [kind |-> "None", summary |-> ""]

FallbackAnalysis ==
    [kind |-> "fallback",
     summary |-> "Meeting analysis unavailable due to processing error. Please try again."]

\* a variant of analyze_meeting that hands the failure on instead of the fallback
AnalyzeMeeting_NoFallback(transcript, insight) ==
    IF insight = "insights"
    THEN [kind |-> "insights", summary |-> transcript]
    ELSE [kind |-> "error", summary |-> "Meeting analysis failed"]

\* AnalysisService.analyze_meeting never raises: a failure yields the fallback
AnalyzeMeeting(transcript, insight) ==
    IF insight = "insights"
    THEN [kind |-> "insights", summary |-> transcript]
    ELSE FallbackAnalysis

SegmentTexts(s) ==
    [i \in 1..Len(s.transcription_segments) |-> s.transcription_segments[i].text]

FullTranscription(s) == Join(SegmentTexts(s))

\* a variant that asks for insights whatever the transcript
CallsInsight_Always(s) == TRUE

\* whether get_session_summary calls the Insight Capability
CallsInsight(s) == StripNonEmpty(FullTranscription(s))

SessionSummary(sid, s, t, insight) ==
    [status |-> "summary",
     session_id |-> sid,
     created_at |-> s.created_at,
     ended_at |-> t,
     total_segments |-> Len(s.transcription_segments),
     total_chunks |-> Len(s.audio_chunks),
     full_transcription |-> FullTranscription(s),
     live_analysis |-> s.live_analysis,
     final_analysis |-> IF CallsInsight(s)
                        THEN AnalyzeMeeting(FullTranscription(s), insight)
                        ELSE NoAnalysis,
     duration_seconds |-> SumSizes(s.audio_chunks, 1) \div (sample_rate * SampleWidth)]

\* the part of a summary that describes the session (not the time of the call)
SummaryContent(r) ==
    [total_segments |-> r.total_segments,
     total_chunks |-> r.total_chunks,
     full_transcription |-> r.full_transcription,
     live_analysis |-> r.live_analysis,
     final_analysis |-> r.final_analysis]

----------------------------------------------------------------------------
(* State after RealTimeTranscriptionService() *)

IdleThread ==
    [pc |-> "idle", sid |-> "", chunk |-> 0, data |-> <<>>, found |-> 0, session |-> 0,
     buffer_size |-> 0, audio_data |-> <<>>, outcome |-> [ok |-> FALSE, text |-> ""],
     transcription |-> "", segment |-> NewSegment("", <<>>, 0)]

NoOutcome == [ok |-> FALSE, text |-> ""]

\* the record of a returned call
\* the session found under the id when the call began, if any
NoPre == NewSession("", 0)
PreOf(sid) == IF active_sessions[sid] # 0 THEN sessions[active_sessions[sid]] ELSE NoPre

\* the record of a returned call: what it was, the object it found under the id,
\* that object's dict when the call began, and what the call returned
Returned(op, sid, obj, result, flushed, outcome, insight_calls) ==
    [op |-> op, sid |-> sid, obj |-> obj, found |-> active_sessions[sid],
     pre |-> PreOf(sid), result |-> result, flushed |-> flushed,
     outcome |-> outcome, insight_calls |-> insight_calls]

Init ==
    /\ active_sessions = [sid \in RegistryIds |-> 0]
    /\ sessions = <<>>
    /\ cleanups = <<>>
    /\ now = 0
    /\ next_chunk = 1
    /\ threads = [t \in Threads |-> IdleThread]
    /\ submitted = <<>>
    /\ accepted = <<>>
    /\ meetings = <<>>
    /\ clients = [c \in Connections |-> NoSession]
    /\ connected = {}
    /\ last = [op |-> "init", sid |-> "", obj |-> 0, found |-> 0, pre |-> NoPre,
               result |-> [status |-> "none"], flushed |-> FALSE,
               outcome |-> NoOutcome, insight_calls |-> 0]

Present(sid) == active_sessions[sid] # 0

\* self.active_sessions[session_id], for a present id
SessionOf(sid) == sessions[active_sessions[sid]]

----------------------------------------------------------------------------
(* The service's operations, each run from call to return *)

\* create_session: builds a new dict and stores it under the id, whatever was there
CreateSessionEffects(sid) ==
    /\ Len(sessions) < MaxObjs
    /\ sessions' = Append(sessions, NewSession(sid, now))
    /\ active_sessions' = [active_sessions EXCEPT ![sid] = Len(sessions) + 1]
    /\ submitted' = Append(submitted, <<>>)
    /\ accepted' = Append(accepted, {})

CreateSession(sid) ==
    /\ CreateSessionEffects(sid)
    /\ last' = Returned("create_session", sid, Len(sessions) + 1,
                        [status |-> "created", session |-> NewSession(sid, now)],
                        FALSE, NoOutcome, 0)
    /\ UNCHANGED <<cleanups, now, next_chunk, threads, meetings,
                   clients, connected>>

\* the client starts the session once
CreateOnce(sid) == ~Present(sid) /\ CreateSession(sid)

\* a variant of process_audio_chunk that registers a session for an unknown id
ProcessAudioChunk_AutoCreate(sid, secs, outcome) ==
    /\ ~Present(sid)
    /\ CreateSession(sid)

\* process_audio_chunk, with _process_buffer when the threshold is reached
ProcessAudioChunk(sid, secs, outcome) ==
    /\ next_chunk <= MaxChunks
    /\ IF ~Present(sid)
       THEN /\ last' = Returned("process_audio_chunk", sid, 0, NotFound(sid),
                                FALSE, NoOutcome, 0)
            /\ UNCHANGED <<sessions, submitted, accepted, next_chunk>>
       ELSE LET obj == active_sessions[sid]
                audio_data == ChunkBytes(next_chunk, secs)
                s1 == RecordChunk(WriteChunk(sessions[obj], audio_data), audio_data, now)
                buffer_size == BufferSize(s1)
                flush == ProcessBuffer(sid, s1, outcome, now)
            IN  /\ next_chunk' = next_chunk + 1
                /\ accepted' = [accepted EXCEPT ![obj] = @ \cup {Accepted(next_chunk, secs, FALSE)}]
                /\ IF ReadyToFlush(buffer_size)
                   THEN /\ sessions' = [sessions EXCEPT ![obj] = flush.session]
                        /\ submitted' = [submitted EXCEPT ![obj] = Append(@, flush.audio_data)]
                        /\ last' = Returned("process_audio_chunk", sid, obj,
                                            flush.result, TRUE, outcome, 0)
                   ELSE /\ sessions' = [sessions EXCEPT ![obj] = s1]
                        /\ submitted' = submitted
                        /\ last' = Returned("process_audio_chunk", sid, obj,
                                            BufferingResult(sid, s1, buffer_size),
                                            FALSE, NoOutcome, 0)
    /\ UNCHANGED <<active_sessions, cleanups, now, threads, meetings,
                   clients, connected>>

InsightCalls(s) == IF CallsInsight(s) THEN 1 ELSE 0

\* a variant of get_session_summary that also marks the session ended
GetSessionSummary_MarksEnded(sid, insight) ==
    /\ IF ~Present(sid)
       THEN /\ last' = Returned("get_session_summary", sid, 0, NotFound(sid),
                                FALSE, NoOutcome, 0)
            /\ sessions' = sessions
       ELSE /\ last' = Returned("get_session_summary", sid, active_sessions[sid],
                                SessionSummary(sid, SessionOf(sid), now, insight),
                                FALSE, NoOutcome, InsightCalls(SessionOf(sid)))
            /\ sessions' = [sessions EXCEPT ![active_sessions[sid]].is_active = FALSE]
    /\ UNCHANGED <<active_sessions, cleanups, now, next_chunk, threads,
                   submitted, accepted, meetings,
                   clients, connected>>

\* get_session_summary
GetSessionSummary(sid, insight) ==
    /\ IF ~Present(sid)
       THEN last' = Returned("get_session_summary", sid, 0, NotFound(sid),
                             FALSE, NoOutcome, 0)
       ELSE last' = Returned("get_session_summary", sid, active_sessions[sid],
                             SessionSummary(sid, SessionOf(sid), now, insight),
                             FALSE, NoOutcome, InsightCalls(SessionOf(sid)))
    /\ UNCHANGED <<active_sessions, sessions, cleanups, now, next_chunk, threads,
                   submitted, accepted, meetings,
                   clients, connected>>

\* the thread end_session starts: it sleeps RetentionDelay seconds, then deletes the id
CleanupThread(sid, obj, t) == [session_id |-> sid, wake |-> t + RetentionDelay, obj |-> obj]

\* end_session: what it returns (the summary is taken before is_active is cleared)
EndSessionResult(sid, insight) ==
    IF ~Present(sid)
    THEN NotFound(sid)
    ELSE SessionSummary(sid, SessionOf(sid), now, insight)

\* a variant of end_session's effects that transcribes what is left in the buffer
EndSessionEffects_FlushRemainder(sid) ==
    IF ~Present(sid)
    THEN UNCHANGED <<sessions, cleanups>>
    ELSE LET obj == active_sessions[sid]
             flush == ProcessBuffer(sid, sessions[obj], [ok |-> TRUE, text |-> "rest"], now)
         IN  /\ Len(cleanups) < MaxCleanups
             /\ sessions' = [sessions EXCEPT ![obj] =
                                [flush.session EXCEPT !.is_active = FALSE]]
             /\ cleanups' = Append(cleanups, CleanupThread(sid, obj, now))

\* a variant of end_session's effects that starts the cleanup thread in any case
EndSessionEffects_AlwaysSchedule(sid) ==
    /\ Len(cleanups) < MaxCleanups
    /\ cleanups' = Append(cleanups, CleanupThread(sid, active_sessions[sid], now))
    /\ sessions' = IF Present(sid)
                   THEN [sessions EXCEPT ![active_sessions[sid]].is_active = FALSE]
                   ELSE sessions

\* end_session: what it does to the session and the cleanup thread it starts
EndSessionEffects(sid) ==
    IF ~Present(sid)
    THEN UNCHANGED <<sessions, cleanups>>
    ELSE LET obj == active_sessions[sid]
         IN  /\ Len(cleanups) < MaxCleanups
             /\ sessions' = [sessions EXCEPT ![obj].is_active = FALSE]
             /\ cleanups' = Append(cleanups, CleanupThread(sid, obj, now))

\* end_session, called on the service
EndSession(sid, insight) ==
    /\ EndSessionEffects(sid)
    /\ last' = Returned("end_session", sid, active_sessions[sid],
                        EndSessionResult(sid, insight), FALSE, NoOutcome,
                        IF Present(sid) THEN InsightCalls(SessionOf(sid)) ELSE 0)
    /\ UNCHANGED <<active_sessions, now, next_chunk, threads, submitted, accepted,
                   meetings,
                   clients, connected>>

RemoveAt(seq, i) == SubSeq(seq, 1, i - 1) \o SubSeq(seq, i + 1, Len(seq))

\* a variant of the cleanup thread that wakes up and exits without deleting the id
Cleanup_KeepsSession(i) ==
    /\ i <= Len(cleanups)
    /\ now >= cleanups[i].wake
    /\ last' = Returned("cleanup", cleanups[i].session_id,
                        active_sessions[cleanups[i].session_id],
                        [status |-> "cleaned", thread |-> cleanups[i]],
                        FALSE, NoOutcome, 0)
    /\ cleanups' = RemoveAt(cleanups, i)
    /\ UNCHANGED <<active_sessions, sessions, now, next_chunk, threads, submitted,
                   accepted, meetings, clients, connected>>

\* a variant of the cleanup thread that empties the whole registry
Cleanup_ClearsRegistry(i) ==
    /\ i <= Len(cleanups)
    /\ now >= cleanups[i].wake
    /\ active_sessions' = [sid \in RegistryIds |-> 0]
    /\ last' = Returned("cleanup", cleanups[i].session_id,
                        active_sessions[cleanups[i].session_id],
                        [status |-> "cleaned", thread |-> cleanups[i]],
                        FALSE, NoOutcome, 0)
    /\ cleanups' = RemoveAt(cleanups, i)
    /\ UNCHANGED <<sessions, now, next_chunk, threads, submitted, accepted, meetings,
                   clients, connected>>

\* the cleanup thread wakes up: if session_id in self.active_sessions: del ...
Cleanup(i) ==
    /\ i <= Len(cleanups)
    /\ now >= cleanups[i].wake
    /\ LET sid == cleanups[i].session_id
       IN  /\ active_sessions' = [active_sessions EXCEPT ![sid] = 0]
           /\ last' = Returned("cleanup", sid, active_sessions[sid],
                               [status |-> "cleaned", thread |-> cleanups[i]],
                               FALSE, NoOutcome, 0)
    /\ cleanups' = RemoveAt(cleanups, i)
    /\ UNCHANGED <<sessions, now, next_chunk, threads, submitted, accepted, meetings,
                   clients, connected>>

\* time passes
Tick ==
    /\ now + TickStep <= MaxTime
    /\ now' = now + TickStep
    /\ UNCHANGED <<active_sessions, sessions, cleanups, next_chunk, threads,
                   submitted, accepted, meetings,
                   clients, connected, last>>

\* the calls a client can make for the ids in `ids`
Calls(ids) ==
    \/ \E sid \in ids : CreateSession(sid)
    \/ \E sid \in ids, secs \in 0..MaxChunkSeconds, outcome \in TranscribeOutcomes :
           ProcessAudioChunk(sid, secs, outcome)
    \/ \E sid \in ids, insight \in InsightOutcomes : GetSessionSummary(sid, insight)
    \/ \E sid \in ids, insight \in InsightOutcomes : EndSession(sid, insight)

\* one client, one session id, and the passing of time
Next ==
    \/ Calls(MainIds)
    \/ \E i \in 1..MaxCleanups : Cleanup(i)
    \/ Tick

Spec == Init /\ [][Next]_vars

----------------------------------------------------------------------------
(* Two sessions side by side in the one registry *)

\* two clients, each recording and ending a session of its own
NextTwo ==
    \/ \E sid \in SessionIds : CreateOnce(sid)
    \/ \E sid \in SessionIds, secs \in 0..MaxChunkSeconds, outcome \in TranscribeOutcomes :
           ProcessAudioChunk(sid, secs, outcome)
    \/ \E sid \in SessionIds, insight \in InsightOutcomes : EndSession(sid, insight)
    \/ \E i \in 1..MaxCleanups : Cleanup(i)
    \/ Tick

SpecTwo == Init /\ [][NextTwo]_vars

----------------------------------------------------------------------------
(* Sessions whose flushes come back with a variety of texts *)

\* texts the Transcription Capability may return for a flush
AnalysisTexts ==
    {"We need to assign this as an action item, deadline Friday",
     "Review the PLAN",
     "good good issue",
     "Great success",
     "API bug is a Problem",
     "hello  world",
     "customer revenue code",
     " "}

\* a chunk arrives; if it brings the buffer to the threshold the capability
\* answers the flush with `text`
ChunkWithText(sid, secs, text) ==
    ProcessAudioChunk(sid, secs, [ok |-> TRUE, text |-> text])

NextAnalysis ==
    \/ \E sid \in MainIds : CreateSession(sid)
    \/ \E sid \in MainIds, secs \in 0..MaxChunkSeconds, text \in AnalysisTexts \cup {""} :
           ChunkWithText(sid, secs, text)
    \/ \E sid \in MainIds, insight \in InsightOutcomes : GetSessionSummary(sid, insight)
    \/ \E sid \in MainIds, insight \in InsightOutcomes : EndSession(sid, insight)

SpecAnalysis == Init /\ [][NextAnalysis]_vars

----------------------------------------------------------------------------
(* POST /api/realtime/start: start_realtime_session in app.py.  The handler's *)
(* start_session builds the id of a message without session_id the same way.  *)

\* data.get('session_id', f"session_{datetime.now().timestamp()}")
StartId(request_sid) ==
    IF request_sid = NoSession THEN GeneratedId(now) ELSE request_sid

start_realtime_session(request_sid) == CreateSession(StartId(request_sid))

\* clients that leave the choice of the id to the server
NextStart ==
    \/ \E request_sid \in {NoSession} : start_realtime_session(request_sid)
    \/ \E sid \in GeneratedIds, secs \in 0..MaxChunkSeconds,
          outcome \in TranscribeOutcomes : ProcessAudioChunk(sid, secs, outcome)
    \/ \E sid \in GeneratedIds, insight \in InsightOutcomes : EndSession(sid, insight)
    \/ \E i \in 1..MaxCleanups : Cleanup(i)
    \/ Tick

SpecStart == Init /\ [][NextStart]_vars

----------------------------------------------------------------------------
(* POST /api/realtime/end/<session_id>: end_realtime_session in app.py *)

\* whether the Embedding and the Visual capability answer
EmbeddingOutcomes == {"vector", "api_failure"}
VisualOutcomes == {"url", "api_failure"}

\* 'full_transcription' in summary and summary['full_transcription'].strip()
HasTranscript(summary) ==
    summary.status = "summary" /\ StripNonEmpty(summary.full_transcription)

\* new_meeting['analysis'] and new_meeting['analysis'].get('summary')
HasAnalysisSummary(summary) ==
    summary.final_analysis.kind # "None" /\ summary.final_analysis.summary # ""

\* create_embedding and generate_visual_summary raise when their API call fails
PersistRaises(summary, embedding, visual) ==
    \/ embedding = "api_failure"
    \/ HasAnalysisSummary(summary) /\ visual = "api_failure"

\* the record appended to data/meetings.json
NewMeeting(sid, summary, embedding, visual) ==
    [id |-> "realtime_" \o sid,
     filename |-> "realtime_session_" \o sid,
     timestamp |-> summary.created_at,
     transcription |-> summary.full_transcription,
     analysis |-> summary.final_analysis,
     realtime_data |-> [session_id |-> sid,
                        duration_seconds |-> summary.duration_seconds,
                        segments_count |-> summary.total_segments,
                        live_analysis |-> summary.live_analysis],
     embedding |-> embedding = "vector",
     visual_url |-> HasAnalysisSummary(summary) /\ visual = "url"]

\* jsonify({'success': True, 'summary': summary}), or the 500 of the except clause
EndResponse(success, code, summary) ==
    [status |-> "response", success |-> success, code |-> code, summary |-> summary]

end_realtime_session(sid, insight, embedding, visual) ==
    LET summary == EndSessionResult(sid, insight)
        persist == HasTranscript(summary)
        raises == persist /\ PersistRaises(summary, embedding, visual)
    IN  /\ EndSessionEffects(sid)
        /\ meetings' = IF persist /\ ~raises
                       THEN Append(meetings, NewMeeting(sid, summary, embedding, visual))
                       ELSE meetings
        /\ last' = Returned("end_realtime_session", sid, active_sessions[sid],
                            IF raises
                            THEN EndResponse(FALSE, 500, ErrorResult("capability failed"))
                            ELSE EndResponse(TRUE, 200, summary),
                            FALSE, NoOutcome,
                            IF Present(sid) THEN InsightCalls(SessionOf(sid)) ELSE 0)
        /\ UNCHANGED <<active_sessions, now, next_chunk, threads, submitted, accepted,
                   clients, connected>>

\* a client records sessions under one id and ends them through the route
NextHttp ==
    \/ \E sid \in MainIds : CreateSession(sid)
    \/ \E sid \in MainIds, secs \in 0..MaxChunkSeconds, outcome \in TranscribeOutcomes :
           ProcessAudioChunk(sid, secs, outcome)
    \/ \E sid \in MainIds, insight \in InsightOutcomes,
          embedding \in EmbeddingOutcomes, visual \in VisualOutcomes :
           end_realtime_session(sid, insight, embedding, visual)
    \/ \E i \in 1..MaxCleanups : Cleanup(i)
    \/ Tick

SpecHttp == Init /\ [][NextHttp]_vars

----------------------------------------------------------------------------
(* process_audio_chunk on request threads, statement by statement.  The service *)
(* object is shared by the threads that serve the HTTP routes and takes no lock. *)

Local(t) == threads[t]

Goto(t, pc) == threads' = [threads EXCEPT ![t].pc = pc]

\* the call returns: the thread is free again
Return(t, result, flushed, outcome) ==
    /\ threads' = [threads EXCEPT ![t] = IdleThread]
    /\ last' = [op |-> "process_audio_chunk", sid |-> Local(t).sid,
                obj |-> Local(t).session, found |-> Local(t).session, pre |-> NoPre,
                result |-> result, flushed |-> flushed, outcome |-> outcome,
                insight_calls |-> 0]

\* a flush of object obj is waiting for the Transcription Capability
TranscriptionOutstanding(obj) ==
    \E t \in Threads : Local(t).pc = "pb_transcribe" /\ Local(t).session = obj

\* a request arrives: process_audio_chunk(session_id, audio_data) is entered
T_Call(t, sid, secs) ==
    /\ Local(t).pc = "idle"
    /\ next_chunk <= MaxChunks
    /\ threads' = [threads EXCEPT ![t] =
           [IdleThread EXCEPT !.pc = "check", !.sid = sid,
                              !.chunk = next_chunk,
                              !.data = ChunkBytes(next_chunk, secs)]]
    /\ next_chunk' = next_chunk + 1
    /\ UNCHANGED <<active_sessions, sessions, cleanups, now, submitted, accepted, meetings,
                   clients, connected, last>>

\* if session_id not in self.active_sessions: raise ValueError
T_Check(t) ==
    /\ Local(t).pc = "check"
    /\ IF Present(Local(t).sid)
       THEN Goto(t, "fetch") /\ last' = last
       ELSE Return(t, NotFound(Local(t).sid), FALSE, NoOutcome)
    /\ UNCHANGED <<active_sessions, sessions, cleanups, now, next_chunk, submitted,
                   accepted, meetings,
                   clients, connected>>

\* session = self.active_sessions[session_id]   (KeyError when reclaimed meanwhile)
T_Fetch(t) ==
    /\ Local(t).pc = "fetch"
    /\ IF Present(Local(t).sid)
       THEN /\ threads' = [threads EXCEPT ![t].pc = "write",
                                          ![t].session = active_sessions[Local(t).sid]]
            /\ last' = last
       ELSE Return(t, ErrorResult(Local(t).sid), FALSE, NoOutcome)
    /\ UNCHANGED <<active_sessions, sessions, cleanups, now, next_chunk, submitted,
                   accepted, meetings,
                   clients, connected>>

\* session['audio_buffer'].write(audio_data)
T_Write(t) ==
    /\ Local(t).pc = "write"
    /\ LET obj == Local(t).session
       IN  /\ sessions' = [sessions EXCEPT ![obj] = WriteChunk(@, Local(t).data)]
           /\ accepted' = [accepted EXCEPT ![obj] =
                  @ \cup {Accepted(Local(t).chunk, Len(Local(t).data),
                                   TranscriptionOutstanding(obj))}]
    /\ Goto(t, "record")
    /\ UNCHANGED <<active_sessions, cleanups, now, next_chunk, submitted, meetings,
                   clients, connected, last>>

\* session['audio_chunks'].append({...})
T_Record(t) ==
    /\ Local(t).pc = "record"
    /\ sessions' = [sessions EXCEPT ![Local(t).session] = RecordChunk(@, Local(t).data, now)]
    /\ Goto(t, "tell")
    /\ UNCHANGED <<active_sessions, cleanups, now, next_chunk, submitted, accepted, meetings,
                   clients, connected, last>>

\* buffer_size = session['audio_buffer'].tell()
T_Tell(t) ==
    /\ Local(t).pc = "tell"
    /\ threads' = [threads EXCEPT ![t].pc = "decide",
                                  ![t].buffer_size = BufferSize(sessions[Local(t).session])]
    /\ UNCHANGED <<active_sessions, sessions, cleanups, now, next_chunk, submitted,
                   accepted, meetings,
                   clients, connected, last>>

\* if buffer_size >= threshold: return self._process_buffer(...); else 'buffering'
T_Decide(t) ==
    /\ Local(t).pc = "decide"
    /\ IF ReadyToFlush(Local(t).buffer_size)
       THEN Goto(t, "pb_fetch") /\ last' = last
       ELSE Return(t, BufferingResult(Local(t).sid, sessions[Local(t).session],
                                      Local(t).buffer_size), FALSE, NoOutcome)
    /\ UNCHANGED <<active_sessions, sessions, cleanups, now, next_chunk, submitted,
                   accepted, meetings,
                   clients, connected>>

\* _process_buffer: session = self.active_sessions[session_id]
T_PbFetch(t) ==
    /\ Local(t).pc = "pb_fetch"
    /\ IF Present(Local(t).sid)
       THEN /\ threads' = [threads EXCEPT ![t].pc = "pb_seek",
                                          ![t].session = active_sessions[Local(t).sid]]
            /\ last' = last
       ELSE Return(t, ErrorResult(Local(t).sid), FALSE, NoOutcome)
    /\ UNCHANGED <<active_sessions, sessions, cleanups, now, next_chunk, submitted,
                   accepted, meetings,
                   clients, connected>>

\* session['audio_buffer'].seek(0)
T_PbSeek(t) ==
    /\ Local(t).pc = "pb_seek"
    /\ sessions' = [sessions EXCEPT ![Local(t).session] = SeekBuffer(@)]
    /\ Goto(t, "pb_read")
    /\ UNCHANGED <<active_sessions, cleanups, now, next_chunk, submitted, accepted, meetings,
                   clients, connected, last>>

\* audio_data = session['audio_buffer'].read()
T_PbRead(t) ==
    /\ Local(t).pc = "pb_read"
    /\ threads' = [threads EXCEPT ![t].pc = "pb_transcribe",
                                  ![t].audio_data = ReadBuffer(sessions[Local(t).session])]
    /\ sessions' = [sessions EXCEPT ![Local(t).session] = AfterReadBuffer(@)]
    /\ UNCHANGED <<active_sessions, cleanups, now, next_chunk, submitted, accepted, meetings,
                   clients, connected, last>>

\* transcription = self._transcribe_chunk(temp_wav): the capability answers
T_PbTranscribe(t, outcome) ==
    /\ Local(t).pc = "pb_transcribe"
    /\ threads' = [threads EXCEPT ![t].pc = "pb_branch",
                                  ![t].transcription = TranscribeChunk(outcome),
                                  ![t].outcome = outcome]
    /\ submitted' = [submitted EXCEPT ![Local(t).session] = Append(@, Local(t).audio_data)]
    /\ UNCHANGED <<active_sessions, sessions, cleanups, now, next_chunk, accepted, meetings,
                   clients, connected, last>>

\* if transcription: session['transcription_segments'].append(segment)
T_PbBranch(t) ==
    /\ Local(t).pc = "pb_branch"
    /\ IF Local(t).transcription # ""
       THEN LET segment == NewSegment(Local(t).transcription, Local(t).audio_data, now)
            IN  /\ sessions' = [sessions EXCEPT ![Local(t).session] = AppendSegment(@, segment)]
                /\ threads' = [threads EXCEPT ![t].pc = "pb_analysis",
                                              ![t].segment = segment]
                /\ last' = last
       ELSE /\ Return(t, NoTranscriptionResult(Local(t).sid), TRUE, Local(t).outcome)
            /\ sessions' = sessions
    /\ UNCHANGED <<active_sessions, cleanups, now, next_chunk, submitted, accepted, meetings,
                   clients, connected>>

\* self._update_live_analysis(session, transcription)
T_PbAnalysis(t) ==
    /\ Local(t).pc = "pb_analysis"
    /\ sessions' = [sessions EXCEPT ![Local(t).session] =
                        ApplyLiveAnalysis(@, Local(t).transcription)]
    /\ Goto(t, "pb_clear")
    /\ UNCHANGED <<active_sessions, cleanups, now, next_chunk, submitted, accepted, meetings,
                   clients, connected, last>>

\* session['audio_buffer'] = io.BytesIO()
T_PbClear(t) ==
    /\ Local(t).pc = "pb_clear"
    /\ sessions' = [sessions EXCEPT ![Local(t).session] = ClearBuffer(@)]
    /\ Goto(t, "pb_return")
    /\ UNCHANGED <<active_sessions, cleanups, now, next_chunk, submitted, accepted, meetings,
                   clients, connected, last>>

\* return {'status': 'transcribed', ...}
T_PbReturn(t) ==
    /\ Local(t).pc = "pb_return"
    /\ Return(t, TranscribedResult(Local(t).sid, sessions[Local(t).session],
                                   Local(t).segment), TRUE, Local(t).outcome)
    /\ UNCHANGED <<active_sessions, sessions, cleanups, now, next_chunk, submitted,
                   accepted, meetings,
                   clients, connected>>

ThreadStep(t) ==
    \/ \E sid \in MainIds, secs \in 0..MaxChunkSeconds : T_Call(t, sid, secs)
    \/ T_Check(t)
    \/ T_Fetch(t)
    \/ T_Write(t)
    \/ T_Record(t)
    \/ T_Tell(t)
    \/ T_Decide(t)
    \/ T_PbFetch(t)
    \/ T_PbSeek(t)
    \/ T_PbRead(t)
    \/ \E outcome \in TranscribeOutcomes : T_PbTranscribe(t, outcome)
    \/ T_PbBranch(t)
    \/ T_PbAnalysis(t)
    \/ T_PbClear(t)
    \/ T_PbReturn(t)

\* chunks of one session delivered on concurrent request threads
NextConc ==
    \/ \E t \in Threads : ThreadStep(t)
    \/ \E sid \in MainIds : CreateOnce(sid)

SpecConc == Init /\ [][NextConc]_vars

----------------------------------------------------------------------------
(* get_session_summary on a request thread, statement by statement, while the  *)
(* cleanup threads started by end_session run.                                 *)

\* str(KeyError(session_id)), the text of the exception a missing key raises
KeyErrorText(sid) == "'" \o sid \o "'"

\* get_session_summary returns on thread t
SummaryReturn(t, result, insight_calls) ==
    /\ threads' = [threads EXCEPT ![t] = IdleThread]
    /\ last' = [op |-> "get_session_summary", sid |-> Local(t).sid,
                obj |-> Local(t).session, found |-> Local(t).found,
                pre |-> IF Local(t).found # 0 THEN sessions[Local(t).found] ELSE NoPre,
                result |-> result, flushed |-> FALSE, outcome |-> NoOutcome,
                insight_calls |-> insight_calls]

\* a request arrives: get_session_summary(session_id) is entered
G_Call(t, sid) ==
    /\ Local(t).pc = "idle"
    /\ threads' = [threads EXCEPT ![t] =
           [IdleThread EXCEPT !.pc = "gs_check", !.sid = sid,
                              !.found = active_sessions[sid]]]
    /\ UNCHANGED <<active_sessions, sessions, cleanups, now, next_chunk, submitted,
                   accepted, meetings,
                   clients, connected, last>>

\* if session_id not in self.active_sessions: raise ValueError
G_Check(t) ==
    /\ Local(t).pc = "gs_check"
    /\ IF Present(Local(t).sid)
       THEN Goto(t, "gs_fetch") /\ last' = last
       ELSE SummaryReturn(t, NotFound(Local(t).sid), 0)
    /\ UNCHANGED <<active_sessions, sessions, cleanups, now, next_chunk, submitted,
                   accepted, meetings,
                   clients, connected>>

\* session = self.active_sessions[session_id]: KeyError when the key has gone,
\* which the except clause turns into {'error': str(e)}
G_Fetch(t) ==
    /\ Local(t).pc = "gs_fetch"
    /\ IF Present(Local(t).sid)
       THEN /\ threads' = [threads EXCEPT ![t].pc = "gs_build",
                                          ![t].session = active_sessions[Local(t).sid]]
            /\ last' = last
       ELSE SummaryReturn(t, ErrorResult(KeyErrorText(Local(t).sid)), 0)
    /\ UNCHANGED <<active_sessions, sessions, cleanups, now, next_chunk, submitted,
                   accepted, meetings,
                   clients, connected>>

\* the rest of the body reads the fetched dict and builds the summary
G_Build(t, insight) ==
    /\ Local(t).pc = "gs_build"
    /\ SummaryReturn(t, SessionSummary(Local(t).sid, sessions[Local(t).session],
                                       now, insight),
                     InsightCalls(sessions[Local(t).session]))
    /\ UNCHANGED <<active_sessions, sessions, cleanups, now, next_chunk, submitted,
                   accepted, meetings,
                   clients, connected>>

\* the request thread that serves the summary requests
SummaryThreads == {"t1"}

SummaryStep(t) ==
    \/ \E sid \in MainIds : G_Call(t, sid)
    \/ G_Check(t)
    \/ G_Fetch(t)
    \/ \E insight \in InsightOutcomes : G_Build(t, insight)

\* audio is delivered while no summary request is in progress
ChunkBetweenSummaries(sid, secs, outcome) ==
    /\ \A t \in Threads : Local(t).pc = "idle"
    /\ ProcessAudioChunk(sid, secs, outcome)

\* a session is recorded and ended, summaries are requested on request threads,
\* and the cleanup threads wake up when their time has come
NextSummary ==
    \/ \E t \in SummaryThreads : SummaryStep(t)
    \/ \E sid \in MainIds : CreateOnce(sid)
    \/ \E sid \in MainIds, secs \in 0..MaxChunkSeconds, outcome \in TranscribeOutcomes :
           ChunkBetweenSummaries(sid, secs, outcome)
    \/ \E sid \in MainIds, insight \in InsightOutcomes : EndSession(sid, insight)
    \/ \E i \in 1..MaxCleanups : Cleanup(i)
    \/ Tick

SpecSummary == Init /\ [][NextSummary]_vars

----------------------------------------------------------------------------
(* RealTimeWebSocketHandler: one asyncio task per connection, one message     *)
(* handled from receipt to response before the next one is taken.  The 'type' *)
(* entry the handler adds to a response is fixed by the kind of the message   *)
(* and is left out.                                                           *)

\* a response the handler builds itself: {'error': msg}
HandlerResponse(op, result) ==
    [op |-> op, sid |-> NoSession, obj |-> 0, found |-> 0, pre |-> NoPre,
     result |-> result, flushed |-> FALSE, outcome |-> NoOutcome,
     insight_calls |-> 0]

\* what every message handler leaves alone when it answers with an error
ServiceUnchanged ==
    UNCHANGED <<active_sessions, sessions, cleanups, now, next_chunk, threads,
                submitted, accepted, meetings>>

\* websockets calls handle_client for a new connection
WsConnect(c) ==
    /\ c \notin connected
    /\ connected' = connected \cup {c}
    /\ ServiceUnchanged
    /\ UNCHANGED <<clients, last>>

\* start_session: create_session, then self.clients[websocket] = session_id
WsStartSession(c, sid) ==
    /\ c \in connected
    /\ CreateSessionEffects(sid)
    /\ clients' = [clients EXCEPT ![c] = sid]
    /\ last' = Returned("start_session", sid, Len(sessions) + 1,
                        [status |-> "session_started", session_id |-> sid,
                         created_at |-> now],
                        FALSE, NoOutcome, 0)
    /\ UNCHANGED <<cleanups, now, next_chunk, threads, meetings, connected>>

\* a variant of process_audio that gives the chunk of a connection without a
\* session to whichever session is registered
WsProcessAudio_AnySession(c, secs, outcome) ==
    /\ c \in connected
    /\ ProcessAudioChunk(IF clients[c] # NoSession THEN clients[c]
                         ELSE CHOOSE sid \in RegistryIds :
                                 Present(sid) \/ \A other \in RegistryIds : ~Present(other),
                         secs, outcome)

\* process_audio: the chunk goes to the session the connection is associated with
WsProcessAudio(c, secs, outcome) ==
    /\ c \in connected
    /\ IF clients[c] = NoSession
       THEN /\ last' = HandlerResponse("process_audio", ErrorResult("No active session"))
            /\ ServiceUnchanged
            /\ UNCHANGED <<clients, connected>>
       ELSE ProcessAudioChunk(clients[c], secs, outcome)

\* the handler's end_session: the association is looked up and kept
WsEndSession(c, insight) ==
    /\ c \in connected
    /\ IF clients[c] = NoSession
       THEN /\ last' = HandlerResponse("ws_end_session", ErrorResult("No active session"))
            /\ ServiceUnchanged
            /\ UNCHANGED <<clients, connected>>
       ELSE EndSession(clients[c], insight)

\* get_summary: self.clients.get(websocket) or data.get('session_id')
WsGetSummary(c, message_sid, insight) ==
    /\ c \in connected
    /\ LET session_id == IF clients[c] # NoSession THEN clients[c] ELSE message_sid
       IN  IF session_id = NoSession
           THEN /\ last' = HandlerResponse("get_summary", ErrorResult("No session specified"))
                /\ ServiceUnchanged
                /\ UNCHANGED <<clients, connected>>
           ELSE GetSessionSummary(session_id, insight)

\* a variant of the fall-through branch that drops the sender's association
WsUnknown_Disassociates(c) ==
    /\ c \in connected
    /\ last' = HandlerResponse("process_message", ErrorResult("Unknown message type"))
    /\ clients' = [clients EXCEPT ![c] = NoSession]
    /\ ServiceUnchanged
    /\ UNCHANGED connected

\* process_message, the else branch: a type that is none of the four
WsUnknown(c) ==
    /\ c \in connected
    /\ last' = HandlerResponse("process_message", ErrorResult("Unknown message type"))
    /\ ServiceUnchanged
    /\ UNCHANGED <<clients, connected>>

\* a variant of cleanup_client that forgets the connection without ending its session
WsDisconnect_OnlyForgets(c) ==
    /\ c \in connected
    /\ connected' = connected \ {c}
    /\ clients' = [clients EXCEPT ![c] = NoSession]
    /\ last' = HandlerResponse("cleanup_client", [status |-> "closed"])
    /\ UNCHANGED <<sessions, cleanups>>
    /\ UNCHANGED <<active_sessions, now, next_chunk, threads, submitted, accepted,
                   meetings>>

\* the connection closes: handle_client's finally runs cleanup_client
WsDisconnect(c) ==
    /\ c \in connected
    /\ connected' = connected \ {c}
    /\ IF clients[c] = NoSession
       THEN /\ last' = HandlerResponse("cleanup_client", [status |-> "closed"])
            /\ UNCHANGED <<sessions, cleanups, clients>>
       ELSE /\ EndSessionEffects(clients[c])
            /\ clients' = [clients EXCEPT ![c] = NoSession]
            /\ last' = Returned("cleanup_client", clients[c], active_sessions[clients[c]],
                                [status |-> "closed"], FALSE, NoOutcome,
                                IF Present(clients[c])
                                THEN InsightCalls(SessionOf(clients[c])) ELSE 0)
    /\ UNCHANGED <<active_sessions, now, next_chunk, threads, submitted, accepted,
                   meetings>>

NextWs ==
    \/ \E c \in MainConnections : WsConnect(c)
    \/ \E c \in MainConnections, sid \in MainIds : WsStartSession(c, sid)
    \/ \E c \in MainConnections, secs \in 0..MaxChunkSeconds, outcome \in TranscribeOutcomes :
          WsProcessAudio(c, secs, outcome)
    \/ \E c \in MainConnections, insight \in InsightOutcomes : WsEndSession(c, insight)
    \/ \E c \in MainConnections, message_sid \in SessionIds \cup {NoSession},
          insight \in InsightOutcomes : WsGetSummary(c, message_sid, insight)
    \/ \E c \in MainConnections : WsUnknown(c)
    \/ \E c \in MainConnections : WsDisconnect(c)
    \/ \E i \in 1..MaxCleanups : Cleanup(i)
    \/ Tick

SpecWs == Init /\ [][NextWs]_vars

\* two connections that start, feed and end sessions under two ids; every flush
\* is transcribed
NextConn ==
    \/ \E c \in Connections : WsConnect(c)
    \/ \E c \in Connections, sid \in SessionIds : WsStartSession(c, sid)
    \/ \E c \in Connections, text \in Texts :
          WsProcessAudio(c, MaxChunkSeconds, [ok |-> TRUE, text |-> text])
    \/ \E c \in Connections, insight \in InsightOutcomes : WsEndSession(c, insight)
    \/ \E c \in Connections : WsDisconnect(c)

SpecConn == Init /\ [][NextConn]_vars

----------------------------------------------------------------------------
(* get_active_sessions.  The list is modelled as the set of its entries: the *)
(* registry of the model keeps no insertion order.                           *)

\* a variant of get_active_sessions that lists every registered id
ActiveSessionIds_AllRegistered == {sid \in RegistryIds : Present(sid)}

\* [session_id for session_id, session in items() if session.get('is_active', False)]
ActiveSessionIds == {sid \in RegistryIds : Present(sid) /\ SessionOf(sid).is_active}

GetActiveSessions ==
    /\ last' = [op |-> "get_active_sessions", sid |-> NoSession, obj |-> 0,
                found |-> 0, pre |-> NoPre,
                result |-> [status |-> "list", ids |-> ActiveSessionIds],
                flushed |-> FALSE, outcome |-> NoOutcome, insight_calls |-> 0]
    /\ UNCHANGED <<active_sessions, sessions, cleanups, now, next_chunk, threads,
                   submitted, accepted, meetings, clients, connected>>

\* two ids that are created, ended, listed and reclaimed
NextList ==
    \/ \E sid \in SessionIds : CreateSession(sid)
    \/ \E sid \in SessionIds, insight \in InsightOutcomes : EndSession(sid, insight)
    \/ GetActiveSessions
    \/ \E i \in 1..MaxCleanups : Cleanup(i)
    \/ Tick

SpecList == Init /\ [][NextList]_vars

----------------------------------------------------------------------------
(* The cleanup threads run to their end: time.sleep(300) returns and the    *)
(* thread is scheduled.  Time is followed for as long as a thread sleeps.   *)

\* the sleep of the cleanup threads goes on
Sleep ==
    /\ \E i \in 1..Len(cleanups) : cleanups[i].wake > now
    /\ now' = now + TickStep
    /\ UNCHANGED <<active_sessions, sessions, cleanups, next_chunk, threads,
                   submitted, accepted, meetings, clients, connected, last>>

NextLive ==
    \/ \E sid \in MainIds : CreateSession(sid)
    \/ \E sid \in MainIds, text \in Texts :
          ProcessAudioChunk(sid, MaxChunkSeconds, [ok |-> TRUE, text |-> text])
    \/ \E sid \in MainIds, insight \in InsightOutcomes : GetSessionSummary(sid, insight)
    \/ \E sid \in MainIds, insight \in InsightOutcomes : EndSession(sid, insight)
    \/ GetActiveSessions
    \/ \E i \in 1..MaxCleanups : Cleanup(i)
    \/ Sleep

SpecLive ==
    /\ Init
    /\ [][NextLive]_vars
    /\ WF_vars(Sleep)
    /\ \A i \in 1..MaxCleanups : WF_vars(Cleanup(i))

----------------------------------------------------------------------------
(* SearchService.search_meetings over the saved meetings.  An embedding is a  *)
(* short vector of integers.  A similarity is kept exactly, as the fraction   *)
(* sign(c) * c^2 of the cosine c: it orders as the cosine does.  Of a result  *)
(* the entries meeting_id and similarity are kept.                            *)

Vectors == {<<1, 0>>, <<0, 1>>, <<1, 1>>, <<-1, 1>>, <<1>>}

QueryVectors == {<<1, 0>>, <<1, 1>>, <<0, 0>>}

\* what create_embedding(query) does: a vector, or it raises
QueryEmbeddings == [ok : {TRUE}, vector : QueryVectors] \cup {[ok |-> FALSE, vector |-> <<>>]}

Queries == {"", " ", "plan"}

\* the shapes a saved meeting can have: with or without the key 'embedding', with
\* an empty or a filled list under it, with a dict or None under 'analysis'
StoredMeetings ==
    [has_embedding : {TRUE}, embedding : Vectors \cup {<<>>}, analysis : {"dict", "None"}]
        \cup [has_embedding : {FALSE}, embedding : {<<>>}, analysis : {"dict"}]

RECURSIVE DotProduct(_, _)
DotProduct(vec1, vec2) ==
    IF vec1 = <<>> THEN 0
    ELSE Head(vec1) * Head(vec2) + DotProduct(Tail(vec1), Tail(vec2))

ZeroSimilarity == [num |-> 0, den |-> 1]

cosine_similarity(vec1, vec2) ==
    IF Len(vec1) # Len(vec2) THEN ZeroSimilarity
    ELSE IF Len(vec1) = 0 THEN ZeroSimilarity
    ELSE IF DotProduct(vec1, vec1) = 0 \/ DotProduct(vec2, vec2) = 0 THEN ZeroSimilarity
    ELSE LET dot_product == DotProduct(vec1, vec2)
         IN  [num |-> IF dot_product < 0 THEN -(dot_product * dot_product)
                      ELSE dot_product * dot_product,
              den |-> DotProduct(vec1, vec1) * DotProduct(vec2, vec2)]

\* x >= y for two similarities
SimilarityGeq(x, y) == x.num * y.den >= y.num * x.den

\* the meetings the loop appends a result for: the others are skipped by
\* `continue`, the ones whose 'analysis' is None through the except clause
YieldsResult(meeting) ==
    /\ meeting.has_embedding
    /\ meeting.embedding # <<>>
    /\ meeting.analysis # "None"

RECURSIVE SearchResults(_, _)
SearchResults(query_embedding, ms) ==
    IF ms = <<>> THEN <<>>
    ELSE IF YieldsResult(Head(ms))
         THEN <<[meeting_id |-> Head(ms).id,
                 similarity |-> cosine_similarity(query_embedding, Head(ms).embedding)]>>
                  \o SearchResults(query_embedding, Tail(ms))
         ELSE SearchResults(query_embedding, Tail(ms))

\* where the stable descending sort puts a result: behind those that are not smaller
RECURSIVE InsertBySimilarity(_, _)
InsertBySimilarity(sorted, result) ==
    IF sorted = <<>> THEN <<result>>
    ELSE IF SimilarityGeq(Head(sorted).similarity, result.similarity)
         THEN <<Head(sorted)>> \o InsertBySimilarity(Tail(sorted), result)
         ELSE <<result>> \o sorted

RECURSIVE SortPrefix(_, _)
SortPrefix(results, n) ==
    IF n = 0 THEN <<>>
    ELSE InsertBySimilarity(SortPrefix(results, n - 1), results[n])

\* a variant that leaves the results in the order of the meetings
SortBySimilarity_MeetingOrder(results) == results

\* results.sort(key=lambda x: x['similarity'], reverse=True)
SortBySimilarity(results) == SortPrefix(results, Len(results))

\* results[:top_k], for a top_k that is not negative
TopResults(results, top_k) ==
    SubSeq(results, 1, IF top_k < Len(results) THEN top_k ELSE Len(results))

search_meetings(query, ms, top_k, query_embedding) ==
    IF ~StripNonEmpty(query) THEN <<>>
    ELSE IF ms = <<>> THEN <<>>
    ELSE IF ~query_embedding.ok THEN <<>>
    ELSE TopResults(SortBySimilarity(SearchResults(query_embedding.vector, ms)), top_k)

\* a meeting record is added to data/meetings.json
StoreMeeting(meeting) ==
    /\ Len(meetings) < MaxMeetings
    /\ meetings' = Append(meetings,
                          [id |-> Len(meetings) + 1,
                           has_embedding |-> meeting.has_embedding,
                           embedding |-> meeting.embedding,
                           analysis |-> meeting.analysis])
    /\ last' = [op |-> "process_meeting", sid |-> NoSession, obj |-> 0, found |-> 0,
                pre |-> NoPre, result |-> [status |-> "saved"], flushed |-> FALSE,
                outcome |-> NoOutcome, insight_calls |-> 0]
    /\ UNCHANGED <<active_sessions, sessions, cleanups, now, next_chunk, threads,
                   submitted, accepted, clients, connected>>

\* a search over the saved meetings
SearchMeetings(query, top_k, query_embedding) ==
    /\ last' = [op |-> "search_meetings", sid |-> NoSession, obj |-> 0, found |-> 0,
                pre |-> NoPre,
                result |-> [status |-> "results", query |-> query, top_k |-> top_k,
                            embedded |-> query_embedding.ok,
                            results |-> search_meetings(query, meetings, top_k,
                                                        query_embedding)],
                flushed |-> FALSE, outcome |-> NoOutcome, insight_calls |-> 0]
    /\ UNCHANGED <<active_sessions, sessions, cleanups, now, next_chunk, threads,
                   submitted, accepted, meetings, clients, connected>>

NextSearch ==
    \/ \E meeting \in StoredMeetings : StoreMeeting(meeting)
    \/ \E query \in Queries, top_k \in 0..MaxTopK, query_embedding \in QueryEmbeddings :
          SearchMeetings(query, top_k, query_embedding)

SpecSearch == Init /\ [][NextSearch]_vars

----------------------------------------------------------------------------
(* Properties *)

\* bytes held by a session's pending buffer
BufferBytes(s) == Len(s.audio_buffer.data) * SecondBytes

ChunkReturned == last.op = "process_audio_chunk" /\ last.obj # 0

\* a flush whose transcription failed or came back empty
FlushWithoutText == ChunkReturned /\ last.flushed /\ TranscribeChunk(last.outcome) = ""

\* C1: whenever process_audio_chunk has returned for a session, that session's
\* pending buffer holds fewer than 96000 bytes.
C1_BufferBelowThresholdAfterChunk ==
    ChunkReturned => BufferBytes(sessions[last.obj]) < FlushThreshold

\* C2: a flush whose transcription fails or is empty returns 'no_transcription',
\* appends no segment and leaves the pending buffer empty.
C2_FailedFlushClearsBuffer ==
    FlushWithoutText =>
        /\ last.result.status = "no_transcription"
        /\ sessions[last.obj].transcription_segments = last.pre.transcription_segments
        /\ BufferBytes(sessions[last.obj]) = 0

\* C3: process_audio_chunk on a session that end_session has marked inactive is
\* rejected with an error and leaves the session's chunks, buffer and segments alone.
C3_NoAudioAfterEnd ==
    (ChunkReturned /\ ~last.pre.is_active) =>
        /\ last.result.status = "error"
        /\ sessions[last.obj] = last.pre

\* C4: create_session on an id already in the registry fails and the id keeps
\* standing for the session object it stood for.
C4_DuplicateCreateRejected ==
    (last.op = "create_session" /\ last.found # 0) =>
        /\ last.result.status = "error"
        /\ active_sessions[last.sid] = last.found
        /\ sessions[last.found] = last.pre

\* a step that is a successful end_session call
EndSessionStep == Len(cleanups') > Len(cleanups)

\* C7: an end_session call that follows an end_session call on the same session
\* does not raise, returns the summary content the first call returned, and does
\* not run the Insight Capability again.
C7_EndSessionIdempotent ==
    [][(/\ last.op = "end_session" /\ last.obj # 0
        /\ EndSessionStep /\ last'.obj = last.obj) =>
           /\ last'.result.status = "summary"
           /\ SummaryContent(last'.result) = SummaryContent(last.result)
           /\ last'.insight_calls = 0]_vars

PendingCleanups(sid) == {i \in 1..Len(cleanups) : cleanups[i].session_id = sid}

\* C8: no session id ever has more than one pending reclamation.
C8_OnePendingReclamation ==
    \A sid \in SessionIds : Cardinality(PendingCleanups(sid)) <= 1

\* C9: a reclamation removes only the session whose end_session scheduled it, and
\* never a session whose is_active is true.
C9_OnlyEndedSessionReclaimed ==
    (last.op = "cleanup" /\ last.found # 0) =>
        /\ ~last.pre.is_active
        /\ last.result.thread.obj = last.found
        /\ now >= last.result.thread.wake

\* C10: while the retention window of an end_session on an id has not elapsed,
\* get_session_summary for that id succeeds.
C10_SummaryWithinRetention ==
    (/\ last.op = "get_session_summary"
     /\ \E i \in PendingCleanups(last.sid) : now < cleanups[i].wake) =>
        last.result.status = "summary"


Quiescent == \A t \in Threads : Local(t).pc = "idle"

Count(id, bytes) == Cardinality({i \in 1..Len(bytes) : bytes[i] = id})

RECURSIVE CountIn(_, _, _)
CountIn(id, snapshots, i) ==
    IF i > Len(snapshots) THEN 0
    ELSE Count(id, snapshots[i]) + CountIn(id, snapshots, i + 1)

\* seconds of chunk `id` in the pending buffer of object obj, and in the snapshots
\* of obj that went to the Transcription Capability
InBuffer(obj, id) == Count(id, sessions[obj].audio_buffer.data)
InSnapshots(obj, id) == CountIn(id, submitted[obj], 1)

\* every flush of obj so far produced a segment
EveryFlushTranscribed(obj) ==
    Len(submitted[obj]) = Len(sessions[obj].transcription_segments)

\* C5: when no call is in progress, every byte of every accepted chunk is in the
\* pending buffer or in exactly one flushed snapshot (stated for sessions whose
\* flushes all produced text, where a flush empties the buffer).
C5_EveryByteExactlyOnce ==
    Quiescent =>
        \A obj \in 1..Len(sessions) :
            EveryFlushTranscribed(obj) =>
                \A a \in accepted[obj] :
                    InBuffer(obj, a.id) + InSnapshots(obj, a.id) = a.secs

\* C6: the bytes of a chunk that was written while a flush of its session was
\* waiting for the Transcription Capability are, once no call is in progress,
\* still in the pending buffer or in a flushed snapshot.
C6_LateChunkKept ==
    Quiescent =>
        \A obj \in 1..Len(sessions) :
            \A a \in accepted[obj] :
                a.late => InBuffer(obj, a.id) + InSnapshots(obj, a.id) >= a.secs

\* C11: a get_session_summary call that found the id registered when it began
\* and whose session has been reclaimed since returned either the complete
\* summary of that session or the session-not-found error, and nothing else.
C11_SummaryOrNotFoundUnderReclamation ==
    (/\ last.op = "get_session_summary"
     /\ last.found # 0
     /\ active_sessions[last.sid] # last.found) =>
        \/ last.result = NotFound(last.sid)
        \/ /\ last.result.status = "summary"
           /\ \E insight \in InsightOutcomes :
                  SummaryContent(last.result) =
                      SummaryContent(SessionSummary(last.sid, last.pre, now, insight))

\* bytes of all the chunks a session has received
CumulativeBytes(s) == SumSizes(s.audio_chunks, 1)

\* C12: as long as the chunks a session has received add up to fewer than 96000
\* bytes, a process_audio_chunk call returns 'buffering', the pending buffer holds
\* exactly the sum of the chunk sizes, chunks_received is the number of calls, and
\* the session has no segment.
C12_BufferingBelowThreshold ==
    (ChunkReturned /\ CumulativeBytes(sessions[last.obj]) < FlushThreshold) =>
        /\ last.result.status = "buffering"
        /\ BufferBytes(sessions[last.obj]) = CumulativeBytes(sessions[last.obj])
        /\ last.result.buffer_size = CumulativeBytes(sessions[last.obj])
        /\ last.result.chunks_received = Cardinality(accepted[last.obj])
        /\ sessions[last.obj].transcription_segments = <<>>

\* two chunks of one second each have been buffered
C12_Witness ==
    /\ ChunkReturned
    /\ Len(sessions[last.obj].audio_chunks) = 2
    /\ CumulativeBytes(sessions[last.obj]) = 2 * SecondBytes
    /\ \A i \in 1..2 : sessions[last.obj].audio_chunks[i].size = SecondBytes
    /\ last.result.status = "buffering"

\* C13: the process_audio_chunk call that first brings a session's cumulative
\* bytes to 96000 or more makes exactly one flush, returns 'transcribed' or
\* 'no_transcription', and leaves the pending buffer empty with every chunk
\* received so far counted.
C13_FirstFlushEmptiesBuffer ==
    (/\ ChunkReturned
     /\ CumulativeBytes(last.pre) < FlushThreshold
     /\ CumulativeBytes(sessions[last.obj]) >= FlushThreshold) =>
        /\ last.flushed
        /\ Len(submitted[last.obj]) = 1
        /\ last.result.status \in {"transcribed", "no_transcription"}
        /\ BufferBytes(sessions[last.obj]) = 0
        /\ Len(sessions[last.obj].audio_chunks) = Cardinality(accepted[last.obj])

\* C14: no second of audio of any chunk is handed to the Transcription
\* Capability more often than the chunk delivered it.
C14_NoByteSubmittedTwice ==
    \A obj \in 1..Len(sessions) :
        \A a \in accepted[obj] : InSnapshots(obj, a.id) <= a.secs

\* a flush that came back with text
FlushWithText == ChunkReturned /\ last.flushed /\ TranscribeChunk(last.outcome) # ""

\* the bytes the flush of the last call drained: what was pending, and the chunk
DrainedBytes ==
    BufferBytes(last.pre)
        + sessions[last.obj].audio_chunks[Len(sessions[last.obj].audio_chunks)].size

\* C15: a flush that comes back with text appends exactly one segment, whose
\* duration times 32000 is the byte size of the drained buffer, applies the
\* live-analysis update once, empties the buffer and reports one more segment.
C15_TranscribedFlushAppendsOneSegment ==
    FlushWithText =>
        LET s == sessions[last.obj]
            n == Len(last.pre.transcription_segments)
        IN  /\ Len(s.transcription_segments) = n + 1
            /\ SubSeq(s.transcription_segments, 1, n) = last.pre.transcription_segments
            /\ s.transcription_segments[n + 1].text = last.outcome.text
            /\ s.transcription_segments[n + 1].duration * 32000 = DrainedBytes
            /\ s.live_analysis = UpdateLiveAnalysis(last.pre.live_analysis, last.outcome.text)
            /\ s.live_analysis.word_count =
                   last.pre.live_analysis.word_count + WordCount(last.outcome.text)
            /\ BufferBytes(s) = 0
            /\ last.result.status = "transcribed"
            /\ last.result.total_segments = n + 1

\* a one-second chunk and a two-second chunk were drained into one segment
C15_Witness ==
    /\ FlushWithText
    /\ BufferBytes(last.pre) = SecondBytes
    /\ DrainedBytes = FlushThreshold
    /\ Len(sessions[last.obj].transcription_segments) = 1

\* C16: end_session hands nothing to the Transcription Capability and adds no
\* segment, whatever is left in the pending buffer: total_segments and
\* full_transcription of its summary are those of the session just before.
C16_EndSessionNeverTranscribes ==
    [][EndSessionStep =>
          /\ submitted' = submitted
          /\ sessions'[last'.obj].transcription_segments =
                 sessions[last'.obj].transcription_segments
          /\ last'.result.total_segments =
                 Len(sessions[last'.obj].transcription_segments)
          /\ last'.result.full_transcription =
                 Join([i \in 1..Len(sessions[last'.obj].transcription_segments) |->
                          sessions[last'.obj].transcription_segments[i].text])]_vars

\* a session with one segment and one second of audio still pending was ended
C16_Witness ==
    /\ last.op = "end_session" /\ last.obj # 0
    /\ BufferBytes(last.pre) = SecondBytes
    /\ BufferBytes(sessions[last.obj]) = SecondBytes
    /\ last.result.total_segments = 1
    /\ Len(submitted[last.obj]) = 1

\* C17: end_session on a session without segments returns an empty
\* full_transcription and no final_analysis, and does not call the Insight
\* Capability.
C17_EndWithoutSegments ==
    (/\ last.op = "end_session" /\ last.obj # 0
     /\ last.pre.transcription_segments = <<>>) =>
        /\ last.result.status = "summary"
        /\ last.result.full_transcription = ""
        /\ last.result.final_analysis = [kind |-> "None", summary |-> ""]
        /\ last.insight_calls = 0

\* a session whose only flush brought no text was ended
C17_Witness ==
    /\ last.op = "end_session" /\ last.obj # 0
    /\ last.pre.transcription_segments = <<>>
    /\ Len(submitted[last.obj]) = 1
    /\ last.result.total_chunks = 1

\* C18: when the Insight Capability fails in an end_session of a session with a
\* non-blank transcript, end_session returns a summary whose final_analysis is
\* the fallback analysis, the session is inactive and a cleanup thread is started.
C18_InsightFailureAbsorbed ==
    [][\A sid \in MainIds :
          (/\ Present(sid)
           /\ StripNonEmpty(FullTranscription(SessionOf(sid)))
           /\ EndSession(sid, "api_failure")) =>
              /\ last'.result.status = "summary"
              /\ last'.result.final_analysis.kind = "fallback"
              /\ last'.result.final_analysis = FallbackAnalysis
              /\ ~sessions'[active_sessions[sid]].is_active
              /\ Len(cleanups') = Len(cleanups) + 1
              /\ cleanups'[Len(cleanups')].session_id = sid]_vars

\* an end_session with a transcript came back with the fallback analysis
C18_Witness ==
    /\ last.op = "end_session" /\ last.obj # 0
    /\ last.result.full_transcription = "We assign ACTION"
    /\ last.result.final_analysis.kind = "fallback"
    /\ ~sessions[last.obj].is_active
    /\ PendingCleanups(last.sid) # {}

\* C19: ending, through the HTTP end route, an id that is not registered makes
\* end_session return the session-not-found error; no session is created or
\* changed, no cleanup thread is started and no meeting record is saved.
C19_EndUnknownIdChangesNothing ==
    [][\A sid \in MainIds :
          (/\ ~Present(sid)
           /\ \E insight \in InsightOutcomes, embedding \in EmbeddingOutcomes,
                 visual \in VisualOutcomes :
                  end_realtime_session(sid, insight, embedding, visual)) =>
              /\ last'.result.summary = [status |-> "error",
                                         error |-> "Session " \o sid \o " not found"]
              /\ active_sessions' = active_sessions
              /\ sessions' = sessions
              /\ cleanups' = cleanups
              /\ meetings' = meetings]_vars

\* the route was called for an id whose session, saved as a meeting when it was
\* ended, has been reclaimed since
C19_Witness ==
    /\ last.op = "end_realtime_session" /\ last.obj = 0
    /\ last.result.summary.status = "error"
    /\ Len(sessions) = 1
    /\ Len(meetings) = 1
    /\ cleanups = <<>>
    /\ \A sid \in SessionIds : active_sessions[sid] = 0

\* C20: process_audio_chunk on an id that is not registered returns the
\* session-not-found error and changes neither the registry nor any session.
C20_UnknownIdChangesNothing ==
    [][\A sid \in MainIds :
          (/\ ~Present(sid)
           /\ \E secs \in 0..MaxChunkSeconds, outcome \in TranscribeOutcomes :
                  ProcessAudioChunk(sid, secs, outcome)) =>
              /\ last'.result = [status |-> "error",
                                 error |-> "Session " \o sid \o " not found"]
              /\ active_sessions' = active_sessions
              /\ sessions' = sessions
              /\ submitted' = submitted]_vars

\* a chunk for an id whose session has been reclaimed was refused
C20_Witness ==
    /\ last.op = "process_audio_chunk" /\ last.obj = 0
    /\ last.result.status = "error"
    /\ Len(sessions) = 1
    /\ \A sid \in SessionIds : active_sessions[sid] = 0

\* C21: a get_session_summary call changes no session (is_active, chunks,
\* segments, pending buffer, live analysis), starts no cleanup thread, hands
\* nothing to the Transcription Capability and leaves the registry alone.
C21_SummaryReadOnly ==
    [][\A sid \in MainIds :
          (\E insight \in InsightOutcomes : GetSessionSummary(sid, insight)) =>
              /\ sessions' = sessions
              /\ active_sessions' = active_sessions
              /\ cleanups' = cleanups
              /\ submitted' = submitted
              /\ accepted' = accepted]_vars

\* a summary of a session in progress was returned: one segment, audio pending,
\* and the session is still active with no cleanup thread
C21_Witness ==
    /\ last.op = "get_session_summary"
    /\ last.result.status = "summary"
    /\ last.result.total_segments = 1
    /\ BufferBytes(sessions[last.obj]) = SecondBytes
    /\ sessions[last.obj].is_active
    /\ cleanups = <<>>

\* C22: a process_audio_chunk call (flushing or not), an end_session call and a
\* reclamation, made for one session id, leave the registry entry, the session
\* dict, the flushed snapshots and the pending cleanup threads of every other
\* id as they were; and a call for a registered id does not return an error.
C22_OtherSessionsUntouched ==
    [][/\ \A sid \in SessionIds :
             (\/ \E secs \in 0..MaxChunkSeconds, outcome \in TranscribeOutcomes :
                     ProcessAudioChunk(sid, secs, outcome)
              \/ \E insight \in InsightOutcomes : EndSession(sid, insight)
              \/ \E i \in 1..Len(cleanups) :
                     cleanups[i].session_id = sid /\ Cleanup(i)) =>
                 \A other \in SessionIds \ {sid} :
                     /\ active_sessions'[other] = active_sessions[other]
                     /\ Present(other) =>
                            /\ sessions'[active_sessions[other]] = SessionOf(other)
                            /\ submitted'[active_sessions[other]] =
                                   submitted[active_sessions[other]]
                     /\ {cleanups'[i] : i \in PendingCleanups(other)'} =
                            {cleanups[i] : i \in PendingCleanups(other)}
       /\ (/\ last' # last
           /\ last'.op \in {"process_audio_chunk", "end_session"}
           /\ last'.found # 0) => last'.result.status # "error"]_vars

\* the session of s1 has been reclaimed while that of s2, with a chunk buffered
\* and a flush behind it, is still registered
C22_Witness ==
    /\ last.op = "cleanup" /\ last.sid = "s1" /\ last.found # 0
    /\ active_sessions["s1"] = 0
    /\ active_sessions["s2"] # 0
    /\ Len(sessions[active_sessions["s2"]].audio_chunks) = 1
    /\ Len(submitted[active_sessions["s2"]]) = 1

\* where the i-th text starts in the texts joined by single spaces
RECURSIVE TextOffset(_, _)
TextOffset(texts, i) ==
    IF i = 1 THEN 0 ELSE TextOffset(texts, i - 1) + Len(texts[i - 1]) + 1

\* `full` is the texts in order with exactly one space between neighbours
IsJoinedBySpaces(full, texts) ==
    LET n == Len(texts)
    IN  /\ Len(full) = IF n = 0 THEN 0 ELSE TextOffset(texts, n) + Len(texts[n])
        /\ \A i \in 1..n :
               /\ SubSeq(full, TextOffset(texts, i) + 1,
                          TextOffset(texts, i) + Len(texts[i])) = texts[i]
               /\ i < n => CharAt(full, TextOffset(texts, i) + Len(texts[i]) + 1) = " "

SummaryReturned ==
    last.op \in {"get_session_summary", "end_session"} /\ last.result.status = "summary"

\* C23: in every step the segments a session object had stay where they were,
\* unaltered, and a new segment goes to the end; the full_transcription of a
\* summary is the segment texts, in order, joined by single spaces.
C23_SegmentsAppendOnly ==
    [][/\ \A obj \in 1..Len(sessions) :
             /\ Len(sessions'[obj].transcription_segments) >=
                    Len(sessions[obj].transcription_segments)
             /\ SubSeq(sessions'[obj].transcription_segments, 1,
                        Len(sessions[obj].transcription_segments)) =
                    sessions[obj].transcription_segments
       /\ SummaryReturned' =>
              IsJoinedBySpaces(last'.result.full_transcription,
                  [i \in 1..Len(last'.pre.transcription_segments) |->
                      last'.pre.transcription_segments[i].text])]_vars

\* a summary of two segments with different texts was returned
C23_Witness ==
    /\ SummaryReturned
    /\ Len(last.pre.transcription_segments) = 2
    /\ last.pre.transcription_segments[1].text = "Review the PLAN"
    /\ last.pre.transcription_segments[2].text = "Great success"
    /\ last.result.full_transcription = "Review the PLAN Great success"

RECURSIVE SegmentWords(_, _)
SegmentWords(segments, i) ==
    IF i > Len(segments) THEN 0
    ELSE WordCount(segments[i].text) + SegmentWords(segments, i + 1)

\* C24: a session's live_analysis.word_count is the sum of the numbers of
\* whitespace-separated tokens of its segments' texts, and no step lowers it.
C24_WordCountIsSumOverSegments ==
    [][/\ \A obj \in 1..Len(sessions') :
             sessions'[obj].live_analysis.word_count =
                 SegmentWords(sessions'[obj].transcription_segments, 1)
       /\ \A obj \in 1..Len(sessions) :
             sessions'[obj].live_analysis.word_count >=
                 sessions[obj].live_analysis.word_count]_vars

\* a session with the eleven-word text and the text with two spaces between
\* its two words counts thirteen words
C24_Witness ==
    \E obj \in 1..Len(sessions) :
        /\ Len(sessions[obj].transcription_segments) = 2
        /\ sessions[obj].transcription_segments[1].text =
               "We need to assign this as an action item, deadline Friday"
        /\ sessions[obj].transcription_segments[2].text = "hello  world"
        /\ sessions[obj].live_analysis.word_count = 13

\* whether a keyword of the k-th topic occurs in the lower-cased text
HasTopicKeyword(text, k) ==
    \E w \in TopicKeywords[k].words : Contains(Lower(text), w)

\* C25: after a flush with text, current_topic is planning if a planning
\* keyword occurs in the text (case-insensitively, as a substring), else
\* technical, else business, else meeting on the same test, and the previous
\* topic when no keyword occurs.
C25_TopicByFirstMatchingRule ==
    FlushWithText =>
        sessions[last.obj].live_analysis.current_topic =
            IF HasTopicKeyword(last.outcome.text, 1) THEN "planning"
            ELSE IF HasTopicKeyword(last.outcome.text, 2) THEN "technical"
            ELSE IF HasTopicKeyword(last.outcome.text, 3) THEN "business"
            ELSE IF HasTopicKeyword(last.outcome.text, 4) THEN "meeting"
            ELSE last.pre.live_analysis.current_topic

\* after "Review the PLAN" (a planning and a meeting keyword) had set planning,
\* a text without keywords left the topic at planning
C25_Witness ==
    /\ FlushWithText
    /\ last.pre.transcription_segments # <<>>
    /\ last.pre.transcription_segments[1].text = "Review the PLAN"
    /\ last.pre.live_analysis.current_topic = "planning"
    /\ last.outcome.text = "hello  world"
    /\ sessions[last.obj].live_analysis.current_topic = "planning"

\* C26: a flush with text raises action_items_detected by one when the text
\* contains an action indicator and leaves it otherwise, however many
\* indicators occur; the counter never exceeds the number of segments.
C26_OneActionItemPerSegment ==
    /\ FlushWithText =>
           sessions[last.obj].live_analysis.action_items_detected =
               last.pre.live_analysis.action_items_detected +
                   (IF \E w \in {"todo", "action", "assign", "responsible",
                                  "deadline", "due"} :
                           Contains(Lower(last.outcome.text), w)
                    THEN 1 ELSE 0)
    /\ \A obj \in 1..Len(sessions) :
           sessions[obj].live_analysis.action_items_detected <=
               Len(sessions[obj].transcription_segments)

\* the text with three indicators (assign, action, deadline) counted once
C26_Witness ==
    /\ FlushWithText
    /\ last.outcome.text = "We need to assign this as an action item, deadline Friday"
    /\ sessions[last.obj].live_analysis.action_items_detected =
           last.pre.live_analysis.action_items_detected + 1
    /\ sessions[last.obj].live_analysis.current_topic = "meeting"

\* how often `word` occurs in `text`
Occurrences(text, word) ==
    Cardinality({i \in 1..(Len(text) - Len(word) + 1) :
                    SubSeq(text, i, i + Len(word) - 1) = word})

RECURSIVE SumOver(_, _)
SumOver(f, S) ==
    IF S = {} THEN 0
    ELSE LET x == CHOOSE y \in S : TRUE IN f[x] + SumOver(f, S \ {x})

SentimentOf(positive, negative) ==
    IF positive > negative THEN "positive"
    ELSE IF negative > positive THEN "negative"
    ELSE "neutral"

\* C27, as stated: after a flush with text, sentiment compares the number of
\* occurrences of positive words in the text with that of negative words.
C27_SentimentByOccurrences ==
    FlushWithText =>
        LET t == Lower(last.outcome.text)
        IN  sessions[last.obj].live_analysis.sentiment =
                SentimentOf(
                    SumOver([w \in PositiveWords |-> Occurrences(t, w)], PositiveWords),
                    SumOver([w \in NegativeWords |-> Occurrences(t, w)], NegativeWords))

\* C27, amended: after a flush with text, sentiment compares the number of
\* positive words that occur in the text with the number of negative words that
\* occur in it, each word counted once; the previous sentiment plays no part.
C27_SentimentByWordsPresent ==
    FlushWithText =>
        LET t == Lower(last.outcome.text)
        IN  sessions[last.obj].live_analysis.sentiment =
                SentimentOf(
                    Cardinality({w \in {"good", "great", "excellent", "success",
                                        "positive"} : Contains(t, w)}),
                    Cardinality({w \in {"issue", "problem", "concern", "difficult",
                                        "challenge"} : Contains(t, w)}))

\* after a negative segment, "good good issue" (one positive word twice, one
\* negative word) gave neutral
C27_Witness ==
    /\ FlushWithText
    /\ last.pre.live_analysis.sentiment = "negative"
    /\ last.outcome.text = "good good issue"
    /\ sessions[last.obj].live_analysis.sentiment = "neutral"

\* C28: once the handler has answered an end_session message on a connection that
\* is associated with a session, the connection is associated with no session id
\* (so a later audio_chunk or end_session message finds no session, and the
\* disconnect cleanup has no session to end again)
C28_EndMessageDisassociates ==
    [][\A c \in Connections :
          (clients[c] # NoSession /\ \E insight \in InsightOutcomes : WsEndSession(c, insight))
              => clients'[c] = NoSession]_vars

\* C29: when a connection that is associated with a session closes, the association
\* is removed and, if the id is still registered, the session under it has
\* is_active false and one more cleanup thread is started for it; if the id was
\* already reaped the close changes no session and starts no thread
C29_DisconnectEndsAndForgets ==
    [][\A c \in Connections :
          (clients[c] # NoSession /\ WsDisconnect(c)) =>
              /\ clients'[c] = NoSession
              /\ c \notin connected'
              /\ active_sessions' = active_sessions
              /\ Present(clients[c]) =>
                    /\ ~sessions'[active_sessions[clients[c]]].is_active
                    /\ cleanups' = Append(cleanups,
                                          CleanupThread(clients[c],
                                                        active_sessions[clients[c]], now))
              /\ ~Present(clients[c]) => UNCHANGED <<sessions, cleanups>>]_vars

\* a connection was closed while associated with a session that had been ended before
C29_Witness ==
    /\ last.op = "cleanup_client"
    /\ last.sid = "s1"
    /\ last.found # 0
    /\ ~last.pre.is_active
    /\ clients = [c \in Connections |-> NoSession]
    /\ Len(cleanups) = 2

\* C30: a message of a type other than the four handled ones is answered with an
\* error, and the registry, every session dict, the cleanup threads and the
\* connection-to-session association are the same after it as before
C30_UnknownTypeChangesNothing ==
    [][\A c \in Connections :
          WsUnknown(c) =>
              /\ last'.result = ErrorResult("Unknown message type")
              /\ UNCHANGED <<active_sessions, sessions, cleanups, clients, connected>>]_vars

\* an unknown message was answered on a connection associated with a live session
C30_Witness ==
    /\ last.op = "process_message"
    /\ clients["w1"] = "s1"
    /\ Present("s1")
    /\ SessionOf("s1").is_active
    /\ Len(SessionOf("s1").transcription_segments) > 0

\* C31: a get_summary message that carries a session_id is answered with the
\* summary of that session (or its not-found error); the connection's associated
\* id is used only when the message carries none
C31_MessageIdTakesPrecedence ==
    [][\A c \in Connections, message_sid \in SessionIds, insight \in InsightOutcomes :
          WsGetSummary(c, message_sid, insight) =>
              /\ last'.op = "get_session_summary"
              /\ last'.sid = message_sid]_vars

\* C32: a start request without session_id gets an id under which no session is
\* registered: it never replaces a session, so two such requests yield two ids
\* and two sessions
C32_GeneratedIdIsFresh ==
    [][start_realtime_session(NoSession) => last'.found = 0]_vars

\* C33: ending a session through the HTTP end route appends a meeting record with
\* id 'realtime_<session id>' when the end summary has a non-empty transcript,
\* and leaves the saved meetings as they were when the transcript is empty or
\* end_session returned an error
C33_EndedTranscriptIsSaved ==
    [][\A sid \in MainIds, insight \in InsightOutcomes,
          embedding \in EmbeddingOutcomes, visual \in VisualOutcomes :
          end_realtime_session(sid, insight, embedding, visual) =>
              IF HasTranscript(EndSessionResult(sid, insight))
              THEN /\ Len(meetings') = Len(meetings) + 1
                   /\ SubSeq(meetings', 1, Len(meetings)) = meetings
                   /\ meetings'[Len(meetings')].id = "realtime_" \o sid
              ELSE meetings' = meetings]_vars

\* the session objects on which end_session has been invoked, among those still
\* registered: each has a cleanup thread that has not fired yet
EndInvoked(obj) == \E i \in 1..Len(cleanups) : cleanups[i].obj = obj

\* C34: get_active_sessions returns exactly the registered ids whose session has
\* not had end_session invoked on it, and a session that is inactive never
\* becomes active again
C34_ListsSessionsNotYetEnded ==
    /\ [](last.op = "get_active_sessions" =>
              last.result.ids = {sid \in RegistryIds :
                                    Present(sid) /\ ~EndInvoked(active_sessions[sid])})
    /\ [][\A obj \in 1..Len(sessions) :
              ~sessions[obj].is_active => ~sessions'[obj].is_active]_vars

\* the list was taken while one id held an ended session and the other a live one
C34_Witness ==
    /\ last.op = "get_active_sessions"
    /\ last.result.ids = {"s2"}
    /\ Present("s1")
    /\ ~SessionOf("s1").is_active

\* C35: once the cleanup of every connection that was opened has completed, no
\* session that is still registered is active: every session was started over a
\* connection, and a closed connection leaves none of its sessions active, the
\* ones it replaced by a later start_session included
C35_NoSessionOutlivesItsConnection ==
    (last.op = "cleanup_client" /\ connected = {}) =>
        \A sid \in RegistryIds : Present(sid) => ~SessionOf(sid).is_active

\* C38: an audio_chunk or end_session message on a connection that is associated
\* with no session is answered with the 'No active session' error and changes
\* neither the registry, nor any session, nor any connection's association,
\* whatever sessions the other connections hold
C38_NoSessionNoEffect ==
    [][\A c \in Connections :
          (/\ clients[c] = NoSession
           /\ \/ \E text \in Texts :
                    WsProcessAudio(c, MaxChunkSeconds, [ok |-> TRUE, text |-> text])
              \/ \E insight \in InsightOutcomes : WsEndSession(c, insight)) =>
              /\ last'.result = ErrorResult("No active session")
              /\ UNCHANGED <<active_sessions, sessions, cleanups, clients, submitted>>]_vars

\* a chunk was refused on a connection without a session while the other
\* connection held a live session with audio in its buffer
C38_Witness ==
    /\ last.op = "process_audio"
    /\ last.result = ErrorResult("No active session")
    /\ \E c \in Connections :
          /\ clients[c] # NoSession
          /\ Present(clients[c])
          /\ SessionOf(clients[c]).is_active
          /\ Len(SessionOf(clients[c]).transcription_segments) > 0
    /\ \E c \in connected : clients[c] = NoSession

\* the saved records that carry the id derived from sid
RecordsOf(sid) == {i \in 1..Len(meetings) : meetings[i].id = "realtime_" \o sid}

\* the sessions ever created under sid
SessionsNamed(sid) == {obj \in 1..Len(sessions) : sessions[obj].id = sid}

\* C36: the saved meetings hold at most one record 'realtime_<session id>' per
\* session: there are never more records with that id than sessions created
\* under the id, however often the end route is called
C36_OneRecordPerSession ==
    \A sid \in MainIds : Cardinality(RecordsOf(sid)) <= Cardinality(SessionsNamed(sid))

\* C37: a registered session on which end_session has succeeded is eventually
\* removed from the registry, given that its cleanup thread gets to run; an id
\* that is not registered is in no list of active sessions and has no summary
C37_EndedSessionIsReclaimed ==
    /\ \A sid \in MainIds :
          (Present(sid) /\ ~SessionOf(sid).is_active) ~> ~Present(sid)
    /\ [](/\ (last.op = "get_active_sessions" =>
                 \A sid \in last.result.ids : Present(sid))
          /\ (last.op = "get_session_summary" /\ last.found = 0 =>
                 last.result = NotFound(last.sid)))

\* the cleanup thread of an ended session has removed it
C37_Witness ==
    /\ last.op = "cleanup"
    /\ last.found # 0
    /\ ~last.pre.is_active
    /\ Len(last.pre.transcription_segments) > 0
    /\ ~Present(last.sid)

\* C39: search_meetings returns at most top_k results, each with a meeting_id and
\* a similarity, in order of non-increasing similarity, each built from a saved
\* meeting that has a non-empty embedding; for an empty or blank query, for no
\* meetings and for a query whose embedding fails it returns the empty list
C39_SearchResultsRankedAndBounded ==
    last.op = "search_meetings" =>
        LET results == last.result.results
        IN  /\ Len(results) <= last.result.top_k
            /\ \A i \in 1..Len(results) :
                  /\ {"meeting_id", "similarity"} \subseteq DOMAIN results[i]
                  /\ \E k \in 1..Len(meetings) :
                        /\ meetings[k].id = results[i].meeting_id
                        /\ meetings[k].has_embedding
                        /\ Len(meetings[k].embedding) > 0
            /\ \A i, j \in 1..Len(results) :
                  i < j => results[i].similarity.num * results[j].similarity.den
                              >= results[j].similarity.num * results[i].similarity.den
            /\ (\/ ~StripNonEmpty(last.result.query)
                \/ meetings = <<>>
                \/ ~last.result.embedded) => results = <<>>

\* three meetings could be ranked, the two best were returned, and the best of
\* them was not the first one saved
C39_Witness ==
    /\ last.op = "search_meetings"
    /\ last.result.top_k = 2
    /\ Len(last.result.results) = 2
    /\ \A k \in 1..Len(meetings) : YieldsResult(meetings[k])
    /\ Len(meetings) = 3
    /\ last.result.results[1].meeting_id = 3
    /\ last.result.results[1].similarity # last.result.results[2].similarity

====
